---- MODULE Spec2Model ----
(***************************************************************************)
(* State-machine model of nexgen_job_creator_app.py, a Streamlit script:   *)
(* the sidebar inputs, the button, the MAIN ACTION block, and the two      *)
(* functions it calls, generate_job_post and create_carousel_pdf.  One     *)
(* script run is one request; pc is the position of the run in the script. *)
(***************************************************************************)
EXTENDS Integers, Sequences, FiniteSets, TLC

(***************************************************************************)
(* Bounds of the model and constants of the program.                       *)
(***************************************************************************)
MaxRequests == 2

NumSlides == 6

Countries == {"India", "Japan"}

RoleTitles == {"", "Dev", "QA"}

ClientContexts == {"", "auto"}

JdTexts == {"", "JD"}

NoValue == "<undefined>"

(***************************************************************************)
(* Python's format(value, spec) for a str value, as the replacement fields *)
(* of an f-string apply it.  A spec is a sequence of characters, parsed as *)
(* [[fill]align][sign][#][0][width][grouping][.precision][type]; whatever  *)
(* is left after the optional parts must be a single type character.       *)
(***************************************************************************)
AlignChars == {"<", ">", "=", "^"}

SignChars == {"+", "-", " "}

DigitChars == {"0", "1", "2", "3", "4", "5", "6", "7", "8", "9"}

At(s, p) == IF p >= 1 /\ p <= Len(s) THEN s[p] ELSE ""

RECURSIVE SkipDigits(_, _)
SkipDigits(s, p) == IF At(s, p) \in DigitChars THEN SkipDigits(s, p + 1) ELSE p

\* The parser walks the spec once; st.p is the next character to read.
ParseStart == [p |-> 1, ok |-> TRUE, align |-> "", sign |-> FALSE, alt |-> FALSE,
               grouping |-> FALSE, type |-> ""]

ParseAlign(s, st) ==
    IF At(s, 2) \in AlignChars THEN [st EXCEPT !.p = 3, !.align = At(s, 2)]
    ELSE IF At(s, 1) \in AlignChars THEN [st EXCEPT !.p = 2, !.align = At(s, 1)]
    ELSE st

ParseSign(s, st) ==
    IF At(s, st.p) \in SignChars THEN [st EXCEPT !.p = @ + 1, !.sign = TRUE] ELSE st

ParseAlt(s, st) ==
    IF At(s, st.p) = "#" THEN [st EXCEPT !.p = @ + 1, !.alt = TRUE] ELSE st

ParseZero(s, st) ==
    IF At(s, st.p) = "0" THEN [st EXCEPT !.p = @ + 1] ELSE st

ParseWidth(s, st) == [st EXCEPT !.p = SkipDigits(s, @)]

ParseGrouping(s, st) ==
    IF At(s, st.p) \in {",", "_"} THEN [st EXCEPT !.p = @ + 1, !.grouping = TRUE]
    ELSE st

\* A "." must be followed by at least one digit.
ParsePrecision(s, st) ==
    IF At(s, st.p) # "." THEN st
    ELSE [st EXCEPT !.p = SkipDigits(s, @ + 1),
                    !.ok = At(s, st.p + 1) \in DigitChars]

\* What is left is at most one character, the type.
ParseType(s, st) ==
    [st EXCEPT !.ok = @ /\ Len(s) - st.p + 1 <= 1,
               !.type = IF Len(s) - st.p + 1 = 1 THEN At(s, st.p) ELSE ""]

ParseFormatSpec(s) ==
    ParseType(s, ParsePrecision(s, ParseGrouping(s, ParseWidth(s,
        ParseZero(s, ParseAlt(s, ParseSign(s, ParseAlign(s, ParseStart))))))))

\* str.__format__: only the type "s" (or none), no sign, no "#", no "=",
\* no thousands separator; anything else raises ValueError.
ValidStrSpec(s) ==
    LET f == ParseFormatSpec(s)
    IN  /\ f.ok
        /\ f.type \in {"", "s"}
        /\ ~f.sign
        /\ ~f.alt
        /\ ~f.grouping
        /\ f.align # "="

\* The text a field contributes: the value itself under the empty spec, the
\* value laid out by the spec otherwise.
FormatStr(value, spec) ==
    IF ~ValidStrSpec(spec) THEN [ok |-> FALSE, text |-> <<>>]
    ELSE IF spec = <<>> THEN [ok |-> TRUE, text |-> <<value>>]
    ELSE [ok |-> TRUE, text |-> <<[value |-> value, spec |-> spec]>>]

Lit(name) == [kind |-> "lit", text |-> name]

Field(value, spec) == [kind |-> "field", value |-> value, spec |-> spec]

\* An f-string is evaluated left to right; the first field whose format
\* raises ends the evaluation with that exception.
RECURSIVE FString(_)
FString(parts) ==
    IF parts = <<>> THEN [ok |-> TRUE, text |-> <<>>]
    ELSE LET head == parts[1]
             this == IF head.kind = "lit"
                     THEN [ok |-> TRUE, text |-> <<head.text>>]
                     ELSE FormatStr(head.value, head.spec)
             rest == FString(Tail(parts))
         IN  IF this.ok /\ rest.ok
             THEN [ok |-> TRUE, text |-> this.text \o rest.text]
             ELSE [ok |-> FALSE, text |-> <<>>]

(***************************************************************************)
(* The two prompts of generate_job_post.                                   *)
(***************************************************************************)
Dots == <<"\"", ".", ".", ".", ".", "\"">>

SlideKeyChars(d) == <<"\"", "s", "l", "i", "d", "e", d, "\"">>

SlideLine(d, last) ==
    <<" ", " ">> \o SlideKeyChars(d) \o <<":", " ">> \o Dots
        \o (IF last THEN <<"\n">> ELSE <<",", "\n">>)

\* Lines 113-121: the braces of the JSON sample are not doubled, so they
\* open a replacement field whose expression is the constant "linkedin_post"
\* and whose format spec is everything between its colon and the closing
\* brace.
JsonSampleSpec ==
    <<" ">> \o Dots \o <<",", "\n">>
        \o SlideLine("1", FALSE) \o SlideLine("2", FALSE)
        \o SlideLine("3", FALSE) \o SlideLine("4", FALSE)
        \o SlideLine("5", FALSE) \o SlideLine("6", TRUE)

SystemPromptParts(c, r, x) ==
    << Lit("persona and rules 1-4, tailored for the country: "),
       Field(c, <<>>),
       Lit("rules 5-8, 9. Use the job title: "),
       Field(r, <<>>),
       Lit("10. Include client context subtly if provided: "),
       Field(x, <<>>),
       Lit("Return your answer in this JSON style:"),
       Field("linkedin_post", JsonSampleSpec),
       Lit("Do not break JSON format.") >>

UserPromptParts(j) ==
    << Lit("Here is the JD to rewrite and enhance:"),
       Field(j, <<>>),
       Lit("Generate LinkedIn post + 6 slides now.") >>

WhyJoin(c) ==
    IF c = "India" THEN "exposure to Japanese clients, travel to Japan"
    ELSE "work with major Japanese enterprises"

(***************************************************************************)
(* The values the call at line 195 can hand back: message.parsed is either *)
(* None or a mapping, trusted as-is, holding any subset of the seven keys  *)
(* the prompt asks for.                                                    *)
(***************************************************************************)
SlideKey(k) == <<"slide1", "slide2", "slide3", "slide4", "slide5", "slide6">>[k]

SlideKeys == {SlideKey(k) : k \in 1..NumSlides}

Keys == {"linkedin_post"} \cup SlideKeys

GeneratedText(key) ==
    CASE key = "linkedin_post" -> "post text"
      [] key = "slide1" -> "title text"
      [] key = "slide2" -> "about text"
      [] key = "slide3" -> "responsibilities text"
      [] key = "slide4" -> "skills text"
      [] key = "slide5" -> "why join text"
      [] key = "slide6" -> "call to action text"

Undefined == [kind |-> "undefined", map |-> [key \in {} |-> ""]]

NoneValue == [kind |-> "none", map |-> [key \in {} |-> ""]]

Mapping(K) == [kind |-> "mapping", map |-> [key \in K |-> GeneratedText(key)]]

Results == {NoneValue} \cup {Mapping(K) : K \in SUBSET Keys}

SubscriptOrEmpty(obj, key) ==
    IF obj.kind # "mapping" THEN [ok |-> FALSE, exc |-> "TypeError", value |-> ""]
    ELSE IF key \notin DOMAIN obj.map THEN [ok |-> TRUE, exc |-> "", value |-> ""]
    ELSE [ok |-> TRUE, exc |-> "", value |-> obj.map[key]]

\* Python's obj[key]: TypeError on None, KeyError on a missing key.
Subscript(obj, key) ==
    IF obj.kind # "mapping" THEN [ok |-> FALSE, exc |-> "TypeError", value |-> ""]
    ELSE IF key \notin DOMAIN obj.map THEN [ok |-> FALSE, exc |-> "KeyError", value |-> ""]
    ELSE [ok |-> TRUE, exc |-> "", value |-> obj.map[key]]

(***************************************************************************)
(* Flowables of the story built by create_carousel_pdf.                    *)
(***************************************************************************)
BrandImage == [type |-> "Image", arg |-> "Nexgen.png"]

Spacer(h) == [type |-> "Spacer", arg |-> h]

Paragraph(text) == [type |-> "Paragraph", arg |-> text]

\* Lines 171-178: what one iteration of the loop appends for slide k.
SlideFlowables(k, text) ==
    << BrandImage, Spacer("0.3in"), Paragraph(text), Spacer("0.5in") >>
        \o (IF k < NumSlides THEN << Spacer("1in"), Paragraph("<br/><br/>") >>
            ELSE << >>)

(***************************************************************************)
(* The arguments of st.download_button, lines 209-214.                     *)
(***************************************************************************)
DownloadFileNameFromRole(r) == r

DownloadFileName(r) == "nexgen_job_carousel.pdf"

DownloadMime == "application/pdf"

NoDownload == [file_name |-> "", mime |-> ""]

(***************************************************************************)
(* State.                                                                  *)
(***************************************************************************)
VARIABLES
    country, role_title, client_context, jd_input, generate_btn,
    pc, outcome, ui, exc, storage,
    why_join, system_prompt, user_prompt, requests,
    slides, story, i, tmp_file,
    result, pdf_path, download,
    genCalls, pdfCalls, contents, documents, events, nreq, offered

inputVars == <<country, role_title, client_context, jd_input, generate_btn>>

genVars == <<why_join, system_prompt, user_prompt, requests>>

pdfVars == <<slides, story, i, tmp_file>>

shellVars == <<result, pdf_path, download>>

histVars == <<genCalls, pdfCalls, contents, documents, events, nreq, offered>>

vars == <<inputVars, pc, outcome, ui, exc, storage, genVars, pdfVars,
          shellVars, histVars>>

NoPath == <<>>

TmpName(n) == <<"tmp", n, ".pdf">>

\* The values every script run starts from: Streamlit runs the script top
\* to bottom on each interaction, so its variables and its page are rebuilt.
FreshRun ==
    /\ ui' = {}
    /\ exc' = "none"
    /\ why_join' = NoValue
    /\ system_prompt' = <<>>
    /\ user_prompt' = <<>>
    /\ requests' = 0
    /\ slides' = Undefined
    /\ story' = <<>>
    /\ i' = 0
    /\ tmp_file' = NoPath
    /\ result' = Undefined
    /\ pdf_path' = NoPath
    /\ download' = NoDownload
    /\ genCalls' = 0
    /\ pdfCalls' = 0
    /\ documents' = 0
    /\ events' = <<>>

NewRunContentsKept(old) == old

NewRunContents(old) == 0

Init ==
    /\ country \in Countries
    /\ role_title = ""
    /\ client_context = ""
    /\ jd_input = ""
    /\ generate_btn = FALSE
    /\ pc = "idle"
    /\ outcome = "none"
    /\ ui = {}
    /\ exc = "none"
    /\ storage = {}
    /\ why_join = NoValue
    /\ system_prompt = <<>>
    /\ user_prompt = <<>>
    /\ requests = 0
    /\ slides = Undefined
    /\ story = <<>>
    /\ i = 0
    /\ tmp_file = NoPath
    /\ result = Undefined
    /\ pdf_path = NoPath
    /\ download = NoDownload
    /\ genCalls = 0
    /\ pdfCalls = 0
    /\ contents = 0
    /\ documents = 0
    /\ events = <<>>
    /\ nreq = 0
    /\ offered = {}

(***************************************************************************)
(* The user's interactions, lines 38-64.                                   *)
(***************************************************************************)
SetInputs(c, r, x, j) ==
    /\ country' = c
    /\ role_title' = r
    /\ client_context' = x
    /\ jd_input' = j

\* A widget is edited: the script reruns with generate_btn False, so the
\* MAIN ACTION block is skipped (line 188) and the page holds no output.
EditInputs ==
    /\ pc = "idle"
    /\ \E c \in Countries, r \in RoleTitles, x \in ClientContexts, j \in JdTexts :
          SetInputs(c, r, x, j)
    /\ generate_btn' = FALSE
    /\ FreshRun
    /\ contents' = NewRunContents(contents)
    /\ outcome' = "none"
    /\ pc' = "idle"
    /\ UNCHANGED <<storage, nreq, offered>>

\* The button is clicked: the script reruns with generate_btn True.
Submit ==
    /\ pc = "idle"
    /\ nreq < MaxRequests
    /\ \E c \in Countries, r \in RoleTitles, x \in ClientContexts, j \in JdTexts :
          SetInputs(c, r, x, j)
    /\ generate_btn' = TRUE
    /\ FreshRun
    /\ contents' = NewRunContents(contents)
    /\ outcome' = "running"
    /\ nreq' = nreq + 1
    /\ pc' = "validate"
    /\ UNCHANGED <<storage, offered>>

(***************************************************************************)
(* MAIN ACTION, lines 188-217.                                             *)
(***************************************************************************)
InputsValidRoleOnly(r, j) == r # ""

\* Line 190: a str is falsy exactly when it is empty.
InputsValid(r, j) == r # "" /\ j # ""

AfterValidationNoStop(valid) == "call"

\* Lines 190-194: st.stop() ends the run; otherwise the run goes on to the
\* call at line 195.
AfterValidation(valid) == IF valid THEN "call" ELSE "idle"

Validate ==
    /\ pc = "validate"
    /\ LET valid == InputsValid(role_title, jd_input)
       IN  /\ pc' = AfterValidation(valid)
           /\ ui' = IF valid THEN ui ELSE ui \cup {"validation_error"}
           /\ outcome' = IF valid THEN outcome ELSE "invalid"
           /\ events' = IF valid THEN Append(events, "validation_passed") ELSE events
    /\ UNCHANGED <<inputVars, exc, storage, genVars, pdfVars, shellVars,
                   genCalls, pdfCalls, contents, documents, nreq, offered>>

\* Line 195: generate_job_post is entered.
CallGenerate ==
    /\ pc = "call"
    /\ genCalls' = genCalls + 1
    /\ events' = Append(events, "call_start")
    /\ pc' = "gen_why_join"
    /\ UNCHANGED <<inputVars, outcome, ui, exc, storage, genVars, pdfVars,
                   shellVars, pdfCalls, contents, documents, nreq, offered>>

\* No statement of the script is inside a try block: an exception raised
\* anywhere in the run leaves the script, and Streamlit's script runner
\* prints it on the page below what the run has already shown.
Propagate ==
    /\ pc = "raised"
    /\ ui' = ui \cup {"uncaught_exception"}
    /\ outcome' = "failed"
    /\ pc' = "idle"
    /\ UNCHANGED <<inputVars, exc, storage, genVars, pdfVars, shellVars, histVars>>

(***************************************************************************)
(* generate_job_post, lines 70-143, statement by statement.                *)
(***************************************************************************)
GenWhyJoin ==
    /\ pc = "gen_why_join"
    /\ why_join' = WhyJoin(country)
    /\ pc' = "gen_system_prompt"
    /\ UNCHANGED <<inputVars, outcome, ui, exc, storage, system_prompt,
                   user_prompt, requests, pdfVars, shellVars, histVars>>

GenSystemPrompt ==
    /\ pc = "gen_system_prompt"
    /\ LET built == FString(SystemPromptParts(country, role_title, client_context))
       IN  IF built.ok
           THEN /\ system_prompt' = built.text
                /\ pc' = "gen_user_prompt"
                /\ exc' = exc
           ELSE /\ exc' = "ValueError"
                /\ pc' = "raised"
                /\ system_prompt' = system_prompt
    /\ UNCHANGED <<inputVars, outcome, ui, storage, why_join, user_prompt,
                   requests, pdfVars, shellVars, histVars>>

GenUserPrompt ==
    /\ pc = "gen_user_prompt"
    /\ LET built == FString(UserPromptParts(jd_input))
       IN  IF built.ok
           THEN /\ user_prompt' = built.text
                /\ events' = Append(events, "prompts_built")
                /\ pc' = "gen_request"
                /\ exc' = exc
           ELSE /\ exc' = "ValueError"
                /\ pc' = "raised"
                /\ UNCHANGED <<user_prompt, events>>
    /\ UNCHANGED <<inputVars, outcome, ui, storage, why_join, system_prompt,
                   requests, pdfVars, shellVars, genCalls, pdfCalls, contents,
                   documents, nreq, offered>>

\* Lines 134-141: one blocking request; the service answers or the call
\* raises.
GenRequest ==
    /\ pc = "gen_request"
    /\ requests' = requests + 1
    /\ \/ /\ pc' = "gen_return"
          /\ exc' = exc
       \/ /\ exc' = "APIError"
          /\ pc' = "raised"
    /\ UNCHANGED <<inputVars, outcome, ui, storage, why_join, system_prompt,
                   user_prompt, pdfVars, shellVars, histVars>>

\* Line 143 and the assignment of line 195.
GenReturn ==
    /\ pc = "gen_return"
    /\ \E r \in Results : result' = r
    /\ contents' = contents + 1
    /\ events' = Append(events, "call_return")
    /\ pc' = "success"
    /\ UNCHANGED <<inputVars, outcome, ui, exc, storage, genVars, pdfVars,
                   pdf_path, download, genCalls, pdfCalls, documents, nreq,
                   offered>>

(***************************************************************************)
(* The Completion Client as the shell sees it through the call of line     *)
(* 195: the call either raises or hands back a value.                      *)
(***************************************************************************)
ClientReturns ==
    /\ pc = "gen_why_join"
    /\ \E r \in Results : result' = r
    /\ contents' = contents + 1
    /\ events' = Append(events, "call_return")
    /\ pc' = "success"
    /\ UNCHANGED <<inputVars, outcome, ui, exc, storage, genVars, pdfVars,
                   pdf_path, download, genCalls, pdfCalls, documents, nreq,
                   offered>>

ClientRaises ==
    /\ pc = "gen_why_join"
    /\ exc' = "ClientError"
    /\ pc' = "raised"
    /\ UNCHANGED <<inputVars, outcome, ui, storage, genVars, pdfVars,
                   shellVars, histVars>>

(***************************************************************************)
(* MAIN ACTION after the call, lines 197-217.                              *)
(***************************************************************************)
ShowSuccess ==
    /\ pc = "success"
    /\ ui' = ui \cup {"success"}
    /\ pc' = "write_post"
    /\ UNCHANGED <<inputVars, outcome, exc, storage, genVars, pdfVars,
                   shellVars, histVars>>

\* Lines 200-201: the subheader, then the post looked up in the result.
WritePost ==
    /\ pc = "write_post"
    /\ LET post == Subscript(result, "linkedin_post")
       IN  IF post.ok
           THEN /\ ui' = ui \cup {"subheader", "post_preview"}
                /\ pc' = "pdf_call"
                /\ exc' = exc
           ELSE /\ ui' = ui \cup {"subheader"}
                /\ exc' = post.exc
                /\ pc' = "raised"
    /\ UNCHANGED <<inputVars, outcome, storage, genVars, pdfVars, shellVars,
                   histVars>>

\* Line 205 returns: pdf_path is bound to the name create_carousel_pdf
\* returned.
PdfReturn ==
    /\ pc = "pdf_ret"
    /\ pdf_path' = tmp_file
    /\ events' = Append(events, "render_return")
    /\ pc' = "open"
    /\ UNCHANGED <<inputVars, outcome, ui, exc, storage, genVars, pdfVars,
                   result, download, genCalls, pdfCalls, contents, documents,
                   nreq, offered>>

\* Line 208: open() finds the file create_carousel_pdf left in storage, or
\* raises OSError (no such file, or the file cannot be read).
OpenPdf ==
    /\ pc = "open"
    /\ \/ /\ pdf_path \in storage
          /\ pc' = "download"
          /\ exc' = exc
       \/ /\ exc' = "OSError"
          /\ pc' = "raised"
    /\ UNCHANGED <<inputVars, outcome, ui, storage, genVars, pdfVars,
                   shellVars, histVars>>

\* Lines 209-214.
Download ==
    /\ pc = "download"
    /\ ui' = ui \cup {"download_button"}
    /\ download' = [file_name |-> DownloadFileName(role_title), mime |-> DownloadMime]
    /\ offered' = offered \cup {[role |-> role_title,
                                 file_name |-> DownloadFileName(role_title),
                                 mime |-> DownloadMime]}
    /\ events' = Append(events, "download")
    /\ pc' = "footer"
    /\ UNCHANGED <<inputVars, outcome, exc, storage, genVars, pdfVars, result,
                   pdf_path, genCalls, pdfCalls, contents, documents, nreq>>

\* Lines 216-217: the run ends.
Footer ==
    /\ pc = "footer"
    /\ ui' = ui \cup {"footer"}
    /\ outcome' = "ok"
    /\ pc' = "idle"
    /\ UNCHANGED <<inputVars, exc, storage, genVars, pdfVars, shellVars, histVars>>

(***************************************************************************)
(* create_carousel_pdf, lines 149-181.                                     *)
(***************************************************************************)
\* Lines 205 and 154-168: the call, the temporary file (delete=False, so
\* closing it does not remove it), the document and the empty story.
CallCreatePdf ==
    /\ pc = "pdf_call"
    /\ pdfCalls' = pdfCalls + 1
    /\ slides' = result
    /\ tmp_file' = TmpName(Cardinality(storage) + 1)
    /\ storage' = storage \cup {TmpName(Cardinality(storage) + 1)}
    /\ story' = <<>>
    /\ i' = 1
    /\ events' = Append(events, "render_start")
    /\ pc' = "pdf_slide"
    /\ UNCHANGED <<inputVars, outcome, ui, exc, genVars, shellVars, genCalls,
                   contents, documents, nreq, offered>>

\* Lines 170-178: one iteration of the loop over range(1, 7).  The image
\* and the first spacer are appended before slides[f"slide{i}"] is looked up.
PdfSlide ==
    /\ pc = "pdf_slide"
    /\ LET text == Subscript(slides, SlideKey(i))
       IN  IF text.ok
           THEN /\ story' = story \o SlideFlowables(i, text.value)
                /\ i' = IF i < NumSlides THEN i + 1 ELSE i
                /\ pc' = IF i < NumSlides THEN "pdf_slide" ELSE "pdf_build"
                /\ exc' = exc
           ELSE /\ story' = story \o << BrandImage, Spacer("0.3in") >>
                /\ exc' = text.exc
                /\ pc' = "raised"
                /\ i' = i
    /\ UNCHANGED <<inputVars, outcome, ui, storage, genVars, slides, tmp_file,
                   shellVars, histVars>>

\* Lines 180-181: doc.build writes the PDF into the temporary file, or the
\* layout fails (the brand image is read from a relative path only now).
PdfBuild ==
    /\ pc = "pdf_build"
    /\ \/ /\ documents' = documents + 1
          /\ pc' = "pdf_ret"
          /\ exc' = exc
       \/ /\ exc' = "LayoutError"
          /\ pc' = "raised"
          /\ documents' = documents
    /\ UNCHANGED <<inputVars, outcome, ui, storage, genVars, pdfVars, shellVars,
                   genCalls, pdfCalls, contents, events, nreq, offered>>

(***************************************************************************)
(* Specifications.                                                         *)
(*   Program   every statement of the script.  Its invariant ReachesOnly   *)
(*             says that no run gets past the system prompt: the f-string  *)
(*             of lines 89-124 raises on every call.                       *)
(*   Spec      Program restricted to the statements a run reaches; it has  *)
(*             the same reachable states as Program.                       *)
(*   ShellSpec the MAIN ACTION block and create_carousel_pdf, with the     *)
(*             body of generate_job_post replaced by its two possible      *)
(*             outcomes at line 195, raising or returning any value of     *)
(*             Results.  Every behaviour of Spec is one of ShellSpec up to *)
(*             the name of the exception, so what ShellSpec never does the *)
(*             script never does; what ShellSpec does after a return is    *)
(*             what lines 197-217 do once the call returns.                *)
(*   PdfSpec   create_carousel_pdf applied to every value of Results.      *)
(***************************************************************************)
ProgramNext ==
    \/ EditInputs \/ Submit \/ Validate \/ CallGenerate
    \/ GenWhyJoin \/ GenSystemPrompt \/ GenUserPrompt \/ GenRequest \/ GenReturn
    \/ ShowSuccess \/ WritePost \/ CallCreatePdf \/ PdfSlide \/ PdfBuild
    \/ PdfReturn \/ OpenPdf \/ Download \/ Footer \/ Propagate

Program == Init /\ [][ProgramNext]_vars

\* In Program no run gets past the system prompt of generate_job_post.
ReachesOnly == pc \in {"idle", "validate", "call", "gen_why_join",
                       "gen_system_prompt", "raised"}

Next ==
    \/ EditInputs \/ Submit \/ Validate \/ CallGenerate
    \/ GenWhyJoin \/ GenSystemPrompt \/ Propagate

Spec == Init /\ [][Next]_vars

ShellNext ==
    \/ EditInputs \/ Submit \/ Validate \/ CallGenerate
    \/ ClientReturns \/ ClientRaises
    \/ ShowSuccess \/ WritePost \/ CallCreatePdf \/ PdfSlide \/ PdfBuild
    \/ PdfReturn \/ OpenPdf \/ Download \/ Footer \/ Propagate

ShellSpec == Init /\ [][ShellNext]_vars

PdfInit ==
    /\ country \in Countries
    /\ role_title \in RoleTitles \ {""}
    /\ client_context = ""
    /\ jd_input = "JD"
    /\ generate_btn = TRUE
    /\ pc = "pdf_call"
    /\ outcome = "running"
    /\ ui = {}
    /\ exc = "none"
    /\ storage = {}
    /\ why_join = NoValue
    /\ system_prompt = <<>>
    /\ user_prompt = <<>>
    /\ requests = 0
    /\ slides = Undefined
    /\ story = <<>>
    /\ i = 0
    /\ tmp_file = NoPath
    /\ result \in Results
    /\ pdf_path = NoPath
    /\ download = NoDownload
    /\ genCalls = 0
    /\ pdfCalls = 0
    /\ contents = 0
    /\ documents = 0
    /\ events = <<>>
    /\ nreq = 0
    /\ offered = {}

PdfNext == CallCreatePdf \/ PdfSlide \/ PdfBuild

PdfSpec == PdfInit /\ [][PdfNext]_vars

(***************************************************************************)
(* Properties.                                                             *)
(***************************************************************************)
Occurs(e) == \E k \in 1..Len(events) : events[k] = e

Precedes(a, b) ==
    \A k \in 1..Len(events) :
        events[k] = b => \E j \in 1..(k - 1) : events[j] = a

NoRepeat == \A j, k \in 1..Len(events) : events[j] = events[k] => j = k

Shown == {"success", "post_preview", "download_button"}

\* C1: in a submitted run whose role title or JD text is empty,
\* generate_job_post is never called, no completion request is sent,
\* create_carousel_pdf is never called and no download is offered; the run
\* ends with the validation error on the page.
C1_EmptyInputStopsRun ==
    (generate_btn /\ (role_title = "" \/ jd_input = "")) =>
        /\ genCalls = 0
        /\ requests = 0
        /\ pdfCalls = 0
        /\ contents = 0
        /\ download = NoDownload
        /\ "download_button" \notin ui
        /\ pc = "idle" => (outcome = "invalid" /\ "validation_error" \in ui)

C1_Witness ==
    /\ generate_btn /\ pc = "idle" /\ outcome = "invalid"
    /\ role_title # "" /\ jd_input = ""
    /\ "validation_error" \in ui

\* C2: within one run the stages come in the order validation passed, call
\* of generate_job_post, its return, call of create_carousel_pdf, its
\* return, download button; each happens at most once, and none of the
\* calls or the button exists without its stage having been logged.
C2_StagesInOrder ==
    /\ Precedes("validation_passed", "call_start")
    /\ Precedes("call_start", "call_return")
    /\ Precedes("call_return", "render_start")
    /\ Precedes("render_start", "render_return")
    /\ Precedes("render_return", "download")
    /\ NoRepeat
    /\ genCalls <= 1 /\ pdfCalls <= 1
    /\ genCalls = 1 => Occurs("validation_passed")
    /\ pdfCalls = 1 => Occurs("call_return")
    /\ "download_button" \in ui => Occurs("render_return")

C2_Witness ==
    /\ pc = "idle" /\ outcome = "ok"
    /\ events = << "validation_passed", "call_start", "call_return",
                   "render_start", "render_return", "download" >>

\* C3: when the Completion Client raises, the run ends with a generic error
\* message shown by the shell, the exception is not left to the script runner
\* as an uncaught one, and the call is not made again.
C3_ClientErrorCaught ==
    (pc = "idle" /\ exc = "ClientError") =>
        /\ "generic_error" \in ui
        /\ "uncaught_exception" \notin ui
        /\ genCalls = 1

\* C4: an invocation of generate_job_post that has ended has sent exactly one
\* completion request, and none sends more than one.
C4_OneRequestPerInvocation ==
    /\ requests <= genCalls
    /\ (genCalls = 1 /\ pc \in {"raised", "idle", "success"}) => requests = 1

\* C5: building the prompts never raises, and once both prompts are built no
\* request has been sent and nothing has been rendered.
C5_PromptBuildingNeverRaises ==
    /\ ~(pc = "raised" /\ exc = "ValueError")
    /\ pc = "gen_request" =>
          (system_prompt # <<>> /\ user_prompt # <<>> /\ requests = 0 /\ pdfCalls = 0)

\* C6: a run never holds more than one generated content or more than one
\* rendered document, and a run that ends successfully holds exactly one
\* generated content.
C6_OneContentOneDocument ==
    /\ contents <= 1
    /\ documents <= 1
    /\ outcome = "ok" => contents = 1

C6_Witness ==
    /\ pc = "idle" /\ outcome = "ok" /\ nreq = 2
    /\ contents = 1 /\ documents = 1

SlidePositions(n) ==
    {q \in 1..Len(story) : story[q] = Paragraph(slides.map[SlideKey(n)])}

StoryComplete ==
    /\ Cardinality({q \in 1..Len(story) : story[q] = BrandImage}) = NumSlides
    /\ \A n \in 1..NumSlides :
          /\ Cardinality(SlidePositions(n)) = 1
          /\ \A q \in SlidePositions(n) :
                /\ q > 2
                /\ story[q - 1] = Spacer("0.3in")
                /\ story[q - 2] = BrandImage
    /\ \A n, m \in 1..NumSlides :
          n < m => \A q \in SlidePositions(n), r \in SlidePositions(m) : q < r

C8_MissingKeyFails ==
    /\ (slides.kind = "mapping" /\ ~(SlideKeys \subseteq DOMAIN slides.map)) =>
          /\ pc \notin {"pdf_build", "pdf_ret"}
          /\ documents = 0
          /\ pc = "raised" => exc = "KeyError"
    /\ pc \in {"pdf_build", "pdf_ret"} =>
          (SlideKeys \subseteq DOMAIN slides.map /\ StoryComplete)

C8_Witness ==
    /\ pc = "raised" /\ exc = "KeyError"
    /\ slides.kind = "mapping"
    /\ DOMAIN slides.map = Keys \ {"slide4"}
    /\ i = 4

====
